---- MODULE Spec2Model ----
(***************************************************************************)
(* Model of the live risk-control, pricing and order core of moex_bot:      *)
(*   RiskManager   (moex_bot/core/risk.py)                                  *)
(*   DataProvider  (moex_bot/core/data_provider.py)                         *)
(*   LiveTrader    (moex_bot/core/live_trading.py)                          *)
(*   Trader        (moex_bot/core/broker.py), its order ids                 *)
(*   the entry paths that size and register (telegram_bot.py, live_loop.py) *)
(*   Engine        (moex_bot/core/engine.py), the wait for a streamed price,*)
(*                 the forced exit, the live cycle and its equity, next to  *)
(*                 the cycle of live_loop.py                                *)
(*   the monitor of the RiskManager: its scans and its threads              *)
(*                                                                         *)
(* Numbers.  The code computes in floats; the model computes in exact      *)
(* rationals written as integers: a percentage field such as               *)
(* stop_loss_pct = 0.05 is held in hundredths (5), prices, equity and      *)
(* quantities are integers, and the price levels of a position             *)
(* (stop_price, take_profit, trailing_stop) are held in hundredths of a    *)
(* price unit (Scale), so price * (1 - stop_loss_pct) is                   *)
(* price * (Scale - stop_loss_pct).  Binary rounding error of the floats   *)
(* is not modelled.                                                        *)
(***************************************************************************)
EXTENDS Integers, FiniteSets, Sequences, TLC

\* ------------------------------------------------------------------ bounds
MaxPrice == 2
MaxQty == 2
MaxEquity == 4
MaxDay == 1
MaxPx == 2
MaxRetries == 2
MaxJournal == 2
MaxUid == 2
MaxOrders == 2
MaxQueue == 2

\* hundredths: 1.0 is Scale
Scale == 100

Symbols == {"AAA", "BBB"}
Prices == 1..MaxPrice
\* prices a caller may pass; 0 is the non-positive price of allowed_position_size
Quantities == (-MaxQty)..MaxQty
\* equities an UpdateEquity may report, from a loss of a quarter upwards
EquityValues == 3..MaxEquity
Days == 0..MaxDay

Min(S) == CHOOSE x \in S : \A y \in S : x <= y
Max(S) == CHOOSE x \in S : \A y \in S : x >= y
Abs(x) == IF x < 0 THEN -x ELSE x

\* An Optional[...] field is a set with at most one element ({} is None).
NoLimit == [max_position_pct |-> {}, max_lots |-> {}, max_leverage |-> {}]

\* An AssetClassLimit with no field set.
NoClassLimit == [max_leverage |-> {}, max_exposure_pct |-> {}]

\* The RiskManager's constructor arguments (risk.py 107-124), in hundredths.
DefaultLimits ==
    [ initial_capital |-> 4,
      max_drawdown_pct |-> 20,
      max_daily_loss_pct |-> 10,
      max_position_pct |-> 100,
      per_trade_risk_pct |-> 10,
      stop_loss_pct |-> 5,
      take_profit_pct |-> 10,
      max_positions |-> 2,
      allow_short |-> FALSE,
      max_portfolio_exposure_pct |-> 100,
      max_leverage |-> 100,
      monitor_interval |-> 10,
      instrument_limits |-> [s \in {} |-> NoLimit],
      instrument_classes |-> [s \in {} |-> ""],
      asset_class_limits |-> [c \in {} |-> NoClassLimit] ]

\* The configurations the model is run with: the defaults; leverage 2.0
\* with the exposure percentage left at 1.0 and room for two positions
\* (test_leverage_allows_additional_capacity); an exposure cap of 50% with
\* shorts allowed (test_allowed_position_size_respects_portfolio_exposure);
\* and leverage 2.0 under an exposure percentage of 1.5 with a
\* per-instrument lot limit.
LimitSets ==
    { [DefaultLimits EXCEPT !.max_positions = 1],
      [DefaultLimits EXCEPT !.max_leverage = 200, !.max_daily_loss_pct = 25],
      [DefaultLimits EXCEPT !.max_portfolio_exposure_pct = 50, !.allow_short = TRUE,
                            !.max_positions = 1, !.stop_loss_pct = 50,
                            !.take_profit_pct = 50, !.max_daily_loss_pct = 50,
                            !.per_trade_risk_pct = 50],
      [DefaultLimits EXCEPT !.max_leverage = 200, !.max_portfolio_exposure_pct = 150,
                            !.allow_short = TRUE, !.max_positions = 1,
                            !.max_daily_loss_pct = 50,
                            !.instrument_limits =
                                [s \in {"AAA"} |-> [NoLimit EXCEPT !.max_lots = {1}]]] }

VARIABLES limits, halt_trading, last_equity_date, portfolio_equity, peak_equity, day_start_equity, positions, ret, enabled, sources, cache, history, call, order_history, submitted, contexts, queue, last_prices, wait, force_exit_callback, notifier, monitor_stop, monitor_thread, threads, setup, scan, cycle

riskVars == <<limits, halt_trading, last_equity_date, portfolio_equity, peak_equity, day_start_equity, positions>>

dataVars == <<enabled, sources, cache, history>>

\* LiveTrader: the call in progress and the order journal
liveVars == <<call, order_history>>

\* Trader: the order ids given to the submissions so far
traderVars == <<submitted>>

\* the entry paths that size and register against one RiskManager
entryVars == <<contexts>>

\* Engine: the price queue, the stored prices, the wait for a price
waitVars == <<queue, last_prices, wait>>

\* RiskManager: the force-exit callback and the notifier installed on it
hookVars == <<force_exit_callback, notifier>>

\* RiskManager: the stop event, the thread kept in _monitor_thread, the
\* monitor threads created so far, the caller that sets the monitor up, and
\* the scan the monitor is in
monitorVars == <<monitor_stop, monitor_thread, threads, setup, scan>>

\* the live cycle's position in its sweep
cycleVars == <<cycle>>

controlVars == <<hookVars, monitorVars, cycleVars>>

tradeVars == <<liveVars, traderVars, entryVars, waitVars, controlVars>>

\* What the last call returned to its caller.
NoRet == [op |-> "none"]

\* ------------------------------------------------------------ RiskManager
RiskInitWith(configurations) ==
    /\ limits \in configurations
    /\ halt_trading = FALSE
    /\ last_equity_date = 0
    /\ portfolio_equity = limits.initial_capital
    /\ peak_equity = limits.initial_capital
    /\ day_start_equity = limits.initial_capital
    /\ positions = [s \in {} |-> 0]

IsOpen(symbol) == symbol \in DOMAIN positions

\* sum of |quantity| * last_price over the ledger
RECURSIVE SumExposure(_)
SumExposure(S) ==
    IF S = {} THEN 0
    ELSE LET s == CHOOSE x \in S : TRUE
         IN Abs(positions[s].quantity) * positions[s].last_price + SumExposure(S \ {s})

\* mutant: exposure valued at the entry prices, the marks ignored
RECURSIVE SumEntryValue(_)
SumEntryValue(S) ==
    IF S = {} THEN 0
    ELSE LET s == CHOOSE x \in S : TRUE
         IN Abs(positions[s].quantity) * positions[s].entry_price + SumEntryValue(S \ {s})

gross_exposure_at_entry == SumEntryValue(DOMAIN positions)

current_gross_exposure == SumExposure(DOMAIN positions)

\* mutant: the exposure percentage always caps, 1.0 included
exposure_cap_strict ==
    LET cap == IF limits.max_leverage > 0 THEN limits.max_leverage ELSE Scale
    IN Min({cap, limits.max_portfolio_exposure_pct})

\* exposure_cap_pct of allowed_position_size, in hundredths
exposure_cap_pct ==
    LET cap == IF limits.max_leverage > 0 THEN limits.max_leverage ELSE Scale
    IN IF limits.max_portfolio_exposure_pct \notin {0, Scale}
       THEN Min({cap, limits.max_portfolio_exposure_pct})
       ELSE cap

\* mutant: no cap by the remaining portfolio capacity
SizeCapsNoPortfolio(price, symbol) ==
    LET eq == portfolio_equity
        base == IF price * limits.stop_loss_pct > 0
                THEN {(eq * limits.per_trade_risk_pct) \div (price * limits.stop_loss_pct)}
                ELSE {}
        by_equity == {(eq * limits.max_position_pct) \div (Scale * price)}
    IN base \cup by_equity

\* The caps of allowed_position_size, each floored to whole lots; the
\* result int(max(0, min(...))) is the floor of the least of them.
SizeCaps(price, symbol) ==
    LET eq == portfolio_equity
        base == IF price * limits.stop_loss_pct > 0
                THEN {(eq * limits.per_trade_risk_pct) \div (price * limits.stop_loss_pct)}
                ELSE {}
        by_equity == {(eq * limits.max_position_pct) \div (Scale * price)}
        allowed_value == Max({0, eq * exposure_cap_pct - Scale * current_gross_exposure})
        by_portfolio == {allowed_value \div (Scale * price)}
        lim == IF symbol \in DOMAIN limits.instrument_limits
               THEN limits.instrument_limits[symbol] ELSE NoLimit
        by_inst_pct == {(eq * p) \div (Scale * price) : p \in {x \in lim.max_position_pct : x # 0}}
    IN base \cup by_equity \cup by_portfolio \cup by_inst_pct \cup lim.max_lots

\* symbol is a member of Symbols, or "" for a call without a symbol
allowed_position_size(price, symbol) ==
    IF halt_trading \/ price <= 0 THEN 0
    ELSE Max({0, Min(SizeCaps(price, symbol))})

\* try: ... except Exception: whatever the call did, the caller goes on
Caught(outcome) == "returns"

\* self.notifier(message)
notifier_call == IF notifier = "raises" THEN "raises" ELSE "returns"

\* mutant: the notifier is called outside any try
notify_unguarded == IF notifier = "none" THEN "returns" ELSE notifier_call

\* _notify: what it does to its caller
notify == IF notifier = "none" THEN "returns" ELSE Caught(notifier_call)

clear_positions ==
    positions' = [s \in {} |-> 0]

DailyLossBreach(day_start, new_equity) ==
    \* (day_start - new_equity) / max(day_start, 1e-9) >= max_daily_loss_pct
    IF day_start > 0
    THEN (day_start - new_equity) * Scale >= limits.max_daily_loss_pct * day_start
    ELSE IF limits.max_daily_loss_pct > 0 THEN day_start - new_equity > 0
         ELSE day_start - new_equity >= 0

\* mutant: the breach halts trading and leaves the ledger as it is
update_equity_noclear(new_equity, today) ==
    LET new_day == today # last_equity_date
        day_start == IF new_day THEN new_equity ELSE day_start_equity
    IN /\ portfolio_equity' = new_equity
       /\ day_start_equity' = day_start
       /\ last_equity_date' = today
       /\ peak_equity' = Max({peak_equity, new_equity})
       /\ UNCHANGED positions
       /\ halt_trading' = IF DailyLossBreach(day_start, new_equity) THEN TRUE
                          ELSE IF new_day THEN FALSE ELSE halt_trading

\* mutant: every update without a breach clears the halt, same day or not
update_equity_resets_halt(new_equity, today) ==
    LET new_day == today # last_equity_date
        day_start == IF new_day THEN new_equity ELSE day_start_equity
    IN /\ portfolio_equity' = new_equity
       /\ day_start_equity' = day_start
       /\ last_equity_date' = today
       /\ peak_equity' = Max({peak_equity, new_equity})
       /\ IF DailyLossBreach(day_start, new_equity)
          THEN clear_positions /\ halt_trading' = TRUE
          ELSE UNCHANGED positions /\ halt_trading' = FALSE

\* mutant: the new day clears the halt and keeps the old day's start equity
update_equity_keeps_day_start(new_equity, today) ==
    LET new_day == today # last_equity_date
        day_start == IF new_day THEN new_equity ELSE day_start_equity
        breach == DailyLossBreach(day_start, new_equity)
    IN /\ portfolio_equity' = new_equity
       /\ UNCHANGED day_start_equity
       /\ last_equity_date' = today
       /\ peak_equity' = Max({peak_equity, new_equity})
       /\ IF breach
          THEN clear_positions /\ halt_trading' = TRUE
          ELSE /\ UNCHANGED positions
               /\ halt_trading' = IF new_day THEN FALSE ELSE halt_trading

DrawdownBreach(peak, new_equity) ==
    \* 1 - new_equity / max(peak, 1e-9) >= max_drawdown_pct
    IF peak > 0
    THEN (peak - new_equity) * Scale >= limits.max_drawdown_pct * peak
    ELSE new_equity <= 0

\* whether the _notify of the drawdown message lets an exception out of
\* update_equity, before the daily loss is looked at
DrawdownNotifyRaises(new_equity) ==
    /\ DrawdownBreach(Max({peak_equity, new_equity}), new_equity)
    /\ notify = "raises"

\* whether an exception leaves update_equity
update_equity_raises(new_equity, today) ==
    LET new_day == today # last_equity_date
        day_start == IF new_day THEN new_equity ELSE day_start_equity
    IN \/ DrawdownNotifyRaises(new_equity)
       \/ DailyLossBreach(day_start, new_equity) /\ notify = "raises"

update_equity(new_equity, today) ==
    LET new_day == today # last_equity_date
        day_start == IF new_day THEN new_equity ELSE day_start_equity
        breach == DailyLossBreach(day_start, new_equity)
    IN /\ portfolio_equity' = new_equity
       /\ day_start_equity' = day_start
       /\ last_equity_date' = today
       /\ peak_equity' = Max({peak_equity, new_equity})
       /\ IF breach /\ ~DrawdownNotifyRaises(new_equity)
          THEN clear_positions /\ halt_trading' = TRUE
          ELSE /\ UNCHANGED positions
               /\ halt_trading' = IF new_day THEN FALSE ELSE halt_trading

NewPosition(price, quantity) ==
    LET is_short == quantity < 0
        stop == IF is_short THEN price * (Scale + limits.stop_loss_pct)
                ELSE price * (Scale - limits.stop_loss_pct)
        take == IF is_short THEN price * (Scale - limits.take_profit_pct)
                ELSE price * (Scale + limits.take_profit_pct)
    IN [ entry_price |-> price, quantity |-> quantity, stop_price |-> stop,
         take_profit |-> take, trailing_stop |-> stop, last_price |-> price ]

\* mutant: a full ledger still takes the entry
register_entry_when_full(symbol, price, quantity) ==
    IF \/ halt_trading
       \/ quantity = 0
       \/ (quantity < 0 /\ ~limits.allow_short)
    THEN UNCHANGED positions
    ELSE positions' = [s \in DOMAIN positions \cup {symbol} |->
                          IF s = symbol THEN NewPosition(price, quantity) ELSE positions[s]]

register_entry(symbol, price, quantity) ==
    IF \/ halt_trading
       \/ Cardinality(DOMAIN positions) >= limits.max_positions
       \/ quantity = 0
       \/ (quantity < 0 /\ ~limits.allow_short)
    THEN UNCHANGED positions
    ELSE positions' = [s \in DOMAIN positions \cup {symbol} |->
                          IF s = symbol THEN NewPosition(price, quantity) ELSE positions[s]]

\* mutant: the trailing stop follows the price both ways
RatchetAlways(pos, current_price) ==
    IF pos.quantity >= 0
    THEN current_price * (Scale - limits.stop_loss_pct)
    ELSE current_price * (Scale + limits.stop_loss_pct)

\* the trailing stop check_exit leaves for a position at current_price
Ratchet(pos, current_price) ==
    IF pos.quantity >= 0
    THEN LET new_trailing == current_price * (Scale - limits.stop_loss_pct)
         IN IF new_trailing > pos.trailing_stop THEN new_trailing ELSE pos.trailing_stop
    ELSE LET new_trailing == current_price * (Scale + limits.stop_loss_pct)
         IN IF new_trailing < pos.trailing_stop THEN new_trailing ELSE pos.trailing_stop

\* mutant: only the stop is looked at, never the take-profit
ExitFiresStopOnly(pos, current_price) ==
    IF pos.quantity >= 0
    THEN current_price * Scale <= pos.trailing_stop
    ELSE current_price * Scale >= pos.trailing_stop

\* whether check_exit fires for a position already ratcheted and marked
ExitFires(pos, current_price) ==
    IF pos.quantity >= 0
    THEN \/ current_price * Scale <= pos.trailing_stop
         \/ current_price * Scale >= pos.take_profit
    ELSE \/ current_price * Scale >= pos.trailing_stop
         \/ current_price * Scale <= pos.take_profit

check_exit(symbol, current_price) ==
    IF ~IsOpen(symbol)
    THEN /\ UNCHANGED positions
         /\ ret' = [op |-> "check_exit", symbol |-> symbol, price |-> current_price, value |-> FALSE]
    ELSE LET pos == [positions[symbol] EXCEPT
                        !.last_price = current_price,
                        !.trailing_stop = Ratchet(positions[symbol], current_price)]
         IN /\ positions' = [positions EXCEPT ![symbol] = pos]
            /\ ret' = [op |-> "check_exit", symbol |-> symbol, price |-> current_price,
                       value |-> ExitFires(pos, current_price)]

\* mutant: a price for an unknown symbol creates a ledger entry
update_position_price_inserts(symbol, price) ==
    IF ~IsOpen(symbol)
    THEN positions' = [s \in DOMAIN positions \cup {symbol} |->
                          IF s = symbol THEN NewPosition(price, 0) ELSE positions[s]]
    ELSE positions' = [positions EXCEPT ![symbol].last_price = price]

update_position_price(symbol, price) ==
    IF ~IsOpen(symbol) THEN UNCHANGED positions
    ELSE positions' = [positions EXCEPT ![symbol].last_price = price]

exit_position(symbol) ==
    IF IsOpen(symbol)
    THEN positions' = [s \in DOMAIN positions \ {symbol} |-> positions[s]]
    ELSE UNCHANGED positions

\* ---------------------------------------------------------------- actions
equityVars == <<halt_trading, last_equity_date, portfolio_equity, peak_equity, day_start_equity>>

\* update_equity reads the calendar date, dt.date.today(), which is the date
\* of the last update or a later one
UpdateEquity ==
    \E e \in EquityValues, d \in Days :
        /\ d >= last_equity_date
        /\ update_equity(e, d)
        /\ ret' = [op |-> "update_equity", equity |-> e, open_before |-> DOMAIN positions,
                   halted_before |-> halt_trading, raised |-> update_equity_raises(e, d)]
        /\ UNCHANGED <<limits, dataVars, tradeVars>>

RegisterEntry ==
    \E s \in Symbols, p \in Prices, q \in Quantities :
        /\ register_entry(s, p, q)
        /\ ret' = NoRet
        /\ UNCHANGED <<limits, equityVars, dataVars, tradeVars>>

CheckExit ==
    \E s \in Symbols, p \in Prices :
        /\ check_exit(s, p)
        /\ UNCHANGED <<limits, equityVars, dataVars, tradeVars>>

MarkPrice ==
    \E s \in Symbols, p \in Prices :
        /\ update_position_price(s, p)
        /\ ret' = NoRet
        /\ UNCHANGED <<limits, equityVars, dataVars, tradeVars>>

ExitPosition ==
    \E s \in Symbols :
        /\ exit_position(s)
        /\ ret' = NoRet
        /\ UNCHANGED <<limits, equityVars, dataVars, tradeVars>>

\* An entry sized by the caller: allowed_position_size(price, symbol), then
\* register_entry with a quantity of at most that many lots, long or short.
SizedEntry ==
    \E s \in Symbols, p \in Prices, short \in BOOLEAN :
        \E q \in 1..allowed_position_size(p, s) :
            /\ register_entry(s, p, IF short THEN -q ELSE q)
            /\ ret' = [op |-> "sized_entry", symbol |-> s, price |-> p, lots |-> q]
            /\ UNCHANGED <<limits, equityVars, dataVars, tradeVars>>

\* ----------------------------------------------------------- DataProvider
\* An Optional[float]: None, or a value.  A source's get_last_price may also
\* raise.
None == [kind |-> "none", value |-> 0]
Raise == [kind |-> "raise", value |-> 0]
Some(v) == [kind |-> "value", value |-> v]

\* what a source's get_last_price may do: raise, return None, a non-positive
\* number or a price
Responses == {Raise, None} \cup {Some(v) : v \in 0..MaxPx}

\* the last close of a symbol's CSV history: no file, a non-positive close,
\* or a price (one no source quotes)
HistoryValues == {None, Some(0), Some(MaxPx + 1)}

\* _default_validator: price is not None and float(price) > 0.0
validator(price) == price.kind = "value" /\ price.value > 0

DataInitWith(streams, rests, histories) ==
    /\ enabled = TRUE
    /\ sources \in [stream : streams, rest : rests]
    /\ cache = [s \in {} |-> 0]
    /\ history \in histories

\* _get_cached: the entry's price, also when it is older than cache_ttl
\* unless allow_stale is false
get_cached(symbol, allow_stale) ==
    IF symbol \notin DOMAIN cache THEN None
    ELSE IF allow_stale \/ cache[symbol].fresh THEN Some(cache[symbol].price)
    ELSE None

\* _update_cache: the price with the time of the call
update_cache(c, symbol, price) ==
    [s \in DOMAIN c \cup {symbol} |->
        IF s = symbol THEN [price |-> price, fresh |-> TRUE] ELSE c[s]]

\* latest_price: the cache, then the last close of the history on disk
latest_price(symbol) ==
    LET cached == get_cached(symbol, TRUE)
    IN IF cached # None THEN cached ELSE history[symbol]

\* the loop without the validator: the first answer that is a number wins
SourceLoopUnvalidated(offered) ==
    LET stream_ok == sources.stream /\ offered.stream.kind = "value"
        rest_called == sources.rest /\ ~stream_ok
        rest_ok == rest_called /\ offered.rest.kind = "value"
    IN [ called |-> (IF sources.stream THEN {"stream"} ELSE {})
                        \cup (IF rest_called THEN {"rest"} ELSE {}),
         price |-> IF stream_ok THEN offered.stream
                   ELSE IF rest_ok THEN offered.rest ELSE None ]

\* The loop of get_price over ("stream", self.stream), ("rest", self.rest):
\* the result is the names of the sources called and the first valid price,
\* None when no source gave one.
SourceLoop(offered) ==
    LET stream_called == sources.stream
        stream_ok == stream_called /\ validator(offered.stream)
        rest_called == sources.rest /\ ~stream_ok
        rest_ok == rest_called /\ validator(offered.rest)
    IN [ called |-> (IF stream_called THEN {"stream"} ELSE {})
                        \cup (IF rest_called THEN {"rest"} ELSE {}),
         price |-> IF stream_ok THEN offered.stream
                   ELSE IF rest_ok THEN offered.rest ELSE None ]

\* the price get_price resolves without the network
Fallback(symbol) ==
    LET fresh == get_cached(symbol, FALSE)
        stale == get_cached(symbol, TRUE)
    IN IF fresh # None THEN fresh
       ELSE IF stale # None THEN stale
       ELSE latest_price(symbol)

\* get_price(symbol), the sources answering as offered when they are called
get_price(symbol, offered) ==
    LET result(value, called) ==
            [ op |-> "get_price", symbol |-> symbol, value |-> value, called |-> called,
              offered |-> offered, enabled |-> enabled,
              cached |-> get_cached(symbol, TRUE) ]
    IN IF ~enabled
       THEN /\ ret' = result(get_cached(symbol, TRUE), {})
            /\ UNCHANGED cache
       ELSE LET loop == SourceLoop(offered)
            IN IF loop.price # None
               THEN /\ cache' = update_cache(cache, symbol, loop.price.value)
                    /\ ret' = result(loop.price, loop.called)
               ELSE /\ UNCHANGED cache
                    /\ ret' = result(Fallback(symbol), loop.called)

\* invalidate_cache(symbol); symbol "" is the call without a symbol
invalidate_cache(symbol) ==
    IF symbol = "" THEN cache' = [s \in {} |-> 0]
    ELSE cache' = [s \in DOMAIN cache \ {symbol} |-> cache[s]]

\* a source that is not configured is never asked, so it offers nothing
Offers == {o \in [stream : Responses, rest : Responses] :
              /\ (sources.stream \/ o.stream = None)
              /\ (sources.rest \/ o.rest = None)}

GetPrice ==
    \E s \in Symbols, o \in Offers :
        /\ get_price(s, o)
        /\ UNCHANGED <<riskVars, tradeVars, enabled, sources, history>>

LatestPrice ==
    \E s \in Symbols :
        /\ ret' = [op |-> "latest_price", symbol |-> s, value |-> latest_price(s)]
        /\ UNCHANGED <<riskVars, tradeVars, dataVars>>

DisableNetwork ==
    /\ enabled' = FALSE
    /\ ret' = NoRet
    /\ UNCHANGED <<riskVars, tradeVars, sources, cache, history>>

EnableNetwork ==
    /\ enabled' = TRUE
    /\ ret' = NoRet
    /\ UNCHANGED <<riskVars, tradeVars, sources, cache, history>>

InvalidateCache ==
    \E s \in Symbols \cup {""} :
        /\ invalidate_cache(s)
        /\ ret' = NoRet
        /\ UNCHANGED <<riskVars, tradeVars, enabled, sources, history>>

\* more than cache_ttl seconds pass since an entry was written
CacheExpires ==
    \E s \in DOMAIN cache :
        /\ cache[s].fresh
        /\ cache' = [cache EXCEPT ![s].fresh = FALSE]
        /\ ret' = NoRet
        /\ UNCHANGED <<riskVars, tradeVars, enabled, sources, history>>

\* ------------------------------------------------------------- LiveTrader
\* LiveTrader.max_retries
max_retries == MaxRetries

\* no call of the LiveTrader is in progress
Idle == [op |-> "idle"]

\* Optional[OrderResult] None, and the attempt that has not been made
NoResult == [kind |-> "none", status |-> "", lots_executed |-> 0]

\* What the trader does with one attempt for lots lots: it raises, or it
\* returns an OrderResult; an order that is not accepted executes nothing.
Outcomes(lots) ==
    {[kind |-> "raise", status |-> "", lots_executed |-> 0]}
        \cup {[kind |-> "result", status |-> st, lots_executed |-> 0] :
                 st \in {"rejected", "cancelled", "error"}}
        \cup {[kind |-> "result", status |-> "accepted", lots_executed |-> n] : n \in 0..lots}

\* mutant: only a status with the word reject is a failure
is_success_rejects_only(result) == result.status # "rejected"

\* _is_success: the status has none of the words reject, error, cancel
is_success(result) == result.status \notin {"rejected", "cancelled", "error"}

LiveInit ==
    /\ call = Idle
    /\ order_history = <<>>

\* the payload _record_order appends for attempt number attempt
Payload(c, result, attempt) ==
    [ side |-> c.op, symbol |-> c.symbol, lots |-> c.lots, status |-> result.status,
      lots_executed |-> result.lots_executed, attempt |-> attempt ]

record_order(payload) == order_history' = Append(order_history, payload)

\* what a call hands back: the last attempt made and its outcome, whether
\* the call has returned, and the OrderResult returned (NoResult is None)
Returned(op, symbol, lots, attempt, outcome, result) ==
    [ op |-> op, symbol |-> symbol, lots |-> lots, attempt |-> attempt,
      outcome |-> outcome, returned |-> TRUE, result |-> result ]

\* _submit_with_retry up to its loop: None at once for a non-positive lot
\* count (or when there is no attempt to make), else the first attempt is due
submit_with_retry(side, symbol, lots, limit_price) ==
    IF lots <= 0 \/ max_retries <= 0
    THEN /\ ret' = Returned(side, symbol, lots, 0, NoResult, NoResult)
         /\ UNCHANGED call
    ELSE /\ call' = [op |-> side, symbol |-> symbol, lots |-> lots,
                     limit_price |-> limit_price, attempt |-> 0]
         /\ ret' = NoRet

\* LiveTrader.buy after _submit_with_retry returned order_id
buy_returns(c, order_id) ==
    IF order_id # NoResult /\ order_id.lots_executed # 0 /\ c.limit_price # {}
    THEN \E price \in c.limit_price : register_entry(c.symbol, price, order_id.lots_executed)
    ELSE UNCHANGED positions

\* mutant: the position is dropped whatever the order's outcome
sell_returns_always_exits(c, order_id) == exit_position(c.symbol)

\* LiveTrader.sell after _submit_with_retry returned order_id
sell_returns(c, order_id) ==
    IF order_id # NoResult /\ is_success(order_id)
    THEN exit_position(c.symbol)
    ELSE UNCHANGED positions

call_returns(c, order_id) ==
    IF c.op = "buy" THEN buy_returns(c, order_id) ELSE sell_returns(c, order_id)

\* One pass of the loop of _submit_with_retry, the trader answering with
\* outcome; the pass that ends the loop also runs the rest of buy or sell.
attempt_order(outcome) ==
    LET attempt == call.attempt + 1
    IN /\ IF outcome.kind = "raise" THEN UNCHANGED order_history
          ELSE record_order(Payload(call, outcome, attempt))
       /\ IF outcome.kind = "result" /\ is_success(outcome)
          THEN /\ call_returns(call, outcome)
               /\ call' = Idle
               /\ ret' = Returned(call.op, call.symbol, call.lots, attempt, outcome, outcome)
          ELSE IF attempt >= max_retries
          THEN /\ call_returns(call, NoResult)
               /\ call' = Idle
               /\ ret' = Returned(call.op, call.symbol, call.lots, attempt, outcome, NoResult)
          ELSE /\ UNCHANGED positions
               /\ call' = [call EXCEPT !.attempt = attempt]
               /\ ret' = [ op |-> call.op, symbol |-> call.symbol, lots |-> call.lots,
                           attempt |-> attempt, outcome |-> outcome, returned |-> FALSE,
                           result |-> NoResult ]

\* the limit prices a caller may pass: None or a price
LimitPrices == {{}} \cup {{p} : p \in Prices}

\* a call is started while the journal has room for all its attempts
JournalHasRoom == Len(order_history) + max_retries <= MaxJournal

\* mutant: the order is submitted also when trading is halted
buy_ignores_halt(symbol, lots, limit_price) == submit_with_retry("buy", symbol, lots, limit_price)

\* LiveTrader.buy up to the first attempt: nothing is submitted when the
\* risk manager has halted trading
buy(symbol, lots, limit_price) ==
    IF halt_trading
    THEN /\ ret' = Returned("buy", symbol, lots, 0, NoResult, NoResult)
         /\ UNCHANGED call
    ELSE submit_with_retry("buy", symbol, lots, limit_price)

LiveBuy ==
    \E s \in Symbols, lots \in 0..MaxQty, lp \in LimitPrices :
        /\ call = Idle
        /\ JournalHasRoom
        /\ buy(s, lots, lp)
        /\ UNCHANGED <<riskVars, dataVars, order_history, traderVars, entryVars, waitVars, controlVars>>

LiveSell ==
    \E s \in Symbols, lots \in 0..MaxQty, lp \in LimitPrices :
        /\ call = Idle
        /\ JournalHasRoom
        /\ submit_with_retry("sell", s, lots, lp)
        /\ UNCHANGED <<riskVars, dataVars, order_history, traderVars, entryVars, waitVars, controlVars>>

Attempt ==
    /\ call # Idle
    /\ \E outcome \in Outcomes(call.lots) : attempt_order(outcome)
    /\ UNCHANGED <<limits, equityVars, dataVars, traderVars, entryVars, waitVars, controlVars>>

\* LiveTrader.update_price: update_position_price, check_exit, and when it
\* fires sell(symbol, quantity, limit_price=current_price)
UpdatePrice ==
    \E s \in Symbols, p \in Prices :
        /\ call = Idle
        /\ JournalHasRoom
        /\ IF ~IsOpen(s)
           THEN /\ UNCHANGED <<positions, call>>
                /\ ret' = [op |-> "update_price", symbol |-> s, price |-> p, fired |-> FALSE,
                           quantity |-> 0]
           ELSE LET pos == [positions[s] EXCEPT
                               !.last_price = p,
                               !.trailing_stop = Ratchet(positions[s], p)]
                    fired == ExitFires(pos, p)
                    qty == pos.quantity
                IN /\ positions' = [positions EXCEPT ![s] = pos]
                   /\ IF fired /\ qty > 0
                      THEN call' = [op |-> "sell", symbol |-> s, lots |-> qty,
                                    limit_price |-> {p}, attempt |-> 0]
                      ELSE UNCHANGED call
                   /\ ret' = [op |-> "update_price", symbol |-> s, price |-> p,
                              fired |-> fired, quantity |-> qty]
        /\ UNCHANGED <<limits, equityVars, dataVars, order_history, traderVars, entryVars, waitVars, controlVars>>

\* ------------------------------------------------------------------ Trader
\* uuid.uuid4().hex[:8]: one of finitely many suffixes, whichever the random
\* source gives
Uids == 1..MaxUid

\* _generate_order_id: f"{side}-{figi}-{lots}-{uid}"
generate_order_id(side, figi, lots, uid) ==
    [side |-> side, figi |-> figi, lots |-> lots, uid |-> uid]

TraderInit == submitted = <<>>

\* Trader._submit_order: the order goes out under a newly generated id
submit_order(figi, lots, side, uid) ==
    submitted' = Append(submitted, generate_order_id(side, figi, lots, uid))

\* Trader.buy / Trader.sell, also as called again by a retry
SubmitOrder ==
    \E side \in {"buy", "sell"}, figi \in Symbols, lots \in 1..MaxQty, uid \in Uids :
        /\ Len(submitted) < MaxOrders
        /\ submit_order(figi, lots, side, uid)
        /\ ret' = NoRet
        /\ UNCHANGED <<riskVars, dataVars, liveVars, entryVars, waitVars, controlVars>>

\* ------------------------------------------------------------ entry paths
\* The paths that open positions against the one RiskManager: the live
\* cycle, and a Telegram order that is sized on /buy and registered on
\* /confirm.  Each trades its own symbol.
Contexts == {"live_cycle", "telegram"}

EntrySymbol(c) == IF c = "live_cycle" THEN "AAA" ELSE "BBB"

EntryInit == contexts = [c \in Contexts |-> [pc |-> "start", price |-> 0, lots |-> 0]]

\* allowed_position_size, the lots to trade kept for the registration
SizeEntry(c) ==
    \E p \in Prices :
        /\ contexts[c].pc = "start"
        /\ LET max_lots == allowed_position_size(p, EntrySymbol(c))
           IN IF max_lots <= 0
              THEN contexts' = [contexts EXCEPT ![c] = [pc |-> "done", price |-> p, lots |-> 0]]
              ELSE \E requested \in 1..max_lots :
                      contexts' = [contexts EXCEPT
                                      ![c] = [pc |-> "sized", price |-> p, lots |-> requested]]
        /\ ret' = NoRet
        /\ UNCHANGED <<riskVars, dataVars, liveVars, traderVars, waitVars, controlVars>>

\* register_entry with the lots sized before
ConfirmEntry(c) ==
    /\ contexts[c].pc = "sized"
    /\ register_entry(EntrySymbol(c), contexts[c].price, contexts[c].lots)
    /\ contexts' = [contexts EXCEPT ![c].pc = "done"]
    /\ ret' = NoRet
    /\ UNCHANGED <<limits, equityVars, dataVars, liveVars, traderVars, waitVars, controlVars>>

\* ------------------------------------------------------------------ Engine
\* _wait_for_price's default timeout, in ticks of the clock
timeout == 2

NotWaiting == [pc |-> "idle", symbol |-> "", elapsed |-> 0, total |-> 0, source |-> ""]

WaitInit ==
    /\ queue = <<>>
    /\ last_prices = [s \in {} |-> 0]
    /\ wait = NotWaiting

\* self.state.last_prices[symbol] = price
store_price(symbol, price) ==
    [s \in DOMAIN last_prices \cup {symbol} |-> IF s = symbol THEN price ELSE last_prices[s]]

\* asyncio.Queue(maxsize=queue_max_size).full()
full == Len(queue) >= MaxQueue

\* mutant: the update is put on the queue whether it is full or not
put_always(item) == Append(queue, item)

\* if not self._queue.full(): self._queue.put_nowait(item)
put_unless_full(item) == IF full THEN queue ELSE Append(queue, item)

\* _on_price, called by the streaming thread: the price is stored and put on
\* the queue unless the queue is full
OnPrice ==
    \E sym \in Symbols, price \in Prices :
        /\ last_prices' = store_price(sym, price)
        /\ queue' = put_unless_full(<<sym, price>>)
        /\ ret' = [op |-> "on_price", symbol |-> sym, price |-> price, dropped |-> full]
        /\ UNCHANGED wait
        /\ UNCHANGED <<riskVars, dataVars, liveVars, traderVars, entryVars, controlVars>>

\* _wait_for_price(symbol) up to its loop: a stored price is returned at
\* once, a provider that does not stream is read synchronously
WaitForPrice ==
    \E symbol \in Symbols, streaming \in BOOLEAN :
        /\ wait.pc # "waiting"
        /\ IF symbol \in DOMAIN last_prices
           THEN /\ wait' = [pc |-> "done", symbol |-> symbol, elapsed |-> 0, total |-> 0,
                            source |-> "stored"]
                /\ UNCHANGED last_prices
           ELSE IF ~streaming
           THEN /\ wait' = [pc |-> "done", symbol |-> symbol, elapsed |-> 0, total |-> 0,
                            source |-> "history"]
                /\ last_prices' \in {last_prices} \cup {store_price(symbol, p) : p \in Prices}
           ELSE /\ wait' = [pc |-> "waiting", symbol |-> symbol, elapsed |-> 0, total |-> 0,
                            source |-> ""]
                /\ UNCHANGED last_prices
        /\ UNCHANGED <<queue, ret>>
        /\ UNCHANGED <<riskVars, dataVars, liveVars, traderVars, entryVars, controlVars>>

\* asyncio.wait_for(self._queue.get(), timeout) returns an item: the wait
\* ends when it is for the awaited symbol, else the loop waits again
QueueGet ==
    /\ wait.pc = "waiting"
    /\ queue # <<>>
    /\ queue' = Tail(queue)
    /\ last_prices' = store_price(Head(queue)[1], Head(queue)[2])
    /\ wait' = IF Head(queue)[1] = wait.symbol
               THEN [wait EXCEPT !.pc = "done", !.source = "stream"]
               ELSE [wait EXCEPT !.elapsed = 0]
    /\ UNCHANGED <<ret, riskVars, dataVars, liveVars, traderVars, entryVars, controlVars>>

\* a tick of the clock passes while the queue is empty
Tick ==
    /\ wait.pc = "waiting"
    /\ queue = <<>>
    /\ wait.elapsed < timeout
    /\ wait.total <= timeout
    /\ wait' = [wait EXCEPT !.elapsed = @ + 1, !.total = @ + 1]
    /\ UNCHANGED <<queue, last_prices, ret, riskVars, dataVars, liveVars, traderVars, entryVars, controlVars>>

\* asyncio.TimeoutError: the price is read from the history
WaitTimeout ==
    /\ wait.pc = "waiting"
    /\ queue = <<>>
    /\ wait.elapsed >= timeout
    /\ wait' = [wait EXCEPT !.pc = "done", !.source = "history"]
    /\ UNCHANGED <<queue, last_prices, ret, riskVars, dataVars, liveVars, traderVars, entryVars, controlVars>>

\* ------------------------------------------------ RiskManager: the monitor
\* the force-exit callbacks a RiskManager may hold: none, the Engine's
\* _force_exit_position, or a callback that raises
Callbacks == {"none", "engine", "raises"}

\* the notifiers a RiskManager may hold: none, one that delivers, one that
\* raises
Notifiers == {"none", "delivers", "raises"}

HookInit ==
    /\ force_exit_callback = "none"
    /\ notifier = "none"

\* no scan is running
ScanIdle ==
    [ pc |-> "idle", todo |-> [s \in {} |-> 0], work |-> <<>>, classes |-> {},
      cls |-> "", flatten |-> 0, callback |-> "idle", error |-> FALSE ]

\* the orders in which a loop may meet the members of S
Orderings(S) ==
    {w \in [1..Cardinality(S) -> S] : \A i, j \in 1..Cardinality(S) : i # j => w[i] # w[j]}

\* the instrument limits _check_portfolio_limits finds exceeded by a
\* position, each of them a call of _handle_violation
InstrumentBreaches(symbol, pos) ==
    IF symbol \notin DOMAIN limits.instrument_limits THEN {}
    ELSE LET limit == limits.instrument_limits[symbol]
             exposure == Abs(pos.quantity) * pos.last_price
         IN {"max_leverage" : x \in {y \in limit.max_leverage :
                                        y # 0 /\ Scale * exposure > portfolio_equity * y}}
              \cup {"max_position_pct" : x \in {y \in limit.max_position_pct :
                                        y # 0 /\ Scale * exposure > portfolio_equity * y}}
              \cup {"max_lots" : x \in {y \in limit.max_lots : Abs(pos.quantity) > y}}

\* the symbols of the ledger that belong to an asset class
ClassSymbols(cls_name) ==
    {s \in DOMAIN positions :
        s \in DOMAIN limits.instrument_classes /\ limits.instrument_classes[s] = cls_name}

\* _asset_class_exposure
asset_class_exposure(cls_name) == SumExposure(ClassSymbols(cls_name))

\* the limits of an asset class found exceeded, each of them a _notify and
\* a _force_flatten
ClassBreaches(cls_name) ==
    LET limit == limits.asset_class_limits[cls_name]
        exposure == asset_class_exposure(cls_name)
    IN {"max_exposure_pct" : x \in {y \in limit.max_exposure_pct :
                                       y # 0 /\ Scale * exposure > portfolio_equity * y}}
         \cup {"max_leverage" : x \in {y \in limit.max_leverage :
                                       y # 0 /\ Scale * exposure > portfolio_equity * y}}

\* the snapshot entry of a symbol: the dict in the ledger while the position
\* is open, the dict as the snapshot took it once it is gone
Snapshot(symbol) ==
    IF IsOpen(symbol) THEN positions[symbol] ELSE scan.todo[symbol]

\* _check_portfolio_limits begins: list(self.positions.items())
ScanBegin ==
    /\ scan.pc = "idle"
    /\ scan' = [ScanIdle EXCEPT !.pc = "symbols", !.todo = positions]
    /\ ret' = [op |-> "scan_begin"]
    /\ UNCHANGED <<riskVars, dataVars, liveVars, traderVars, entryVars, waitVars>>
    /\ UNCHANGED <<hookVars, monitor_stop, monitor_thread, threads, setup, cycleVars>>

\* the loop over the snapshot reaches a symbol: one _handle_violation is due
\* for every instrument limit its position exceeds
ScanSymbol ==
    /\ scan.pc = "symbols"
    /\ scan.work = <<>>
    /\ \E symbol \in DOMAIN scan.todo :
          LET n == Cardinality(InstrumentBreaches(symbol, Snapshot(symbol)))
          IN /\ scan' = [scan EXCEPT
                            !.todo = [s \in DOMAIN scan.todo \ {symbol} |-> scan.todo[s]],
                            !.work = [i \in 1..n |-> symbol]]
             /\ ret' = [op |-> "scan_symbol", symbol |-> symbol, breaches |-> n]
    /\ UNCHANGED <<riskVars, dataVars, liveVars, traderVars, entryVars, waitVars>>
    /\ UNCHANGED <<hookVars, monitor_stop, monitor_thread, threads, setup, cycleVars>>

\* the loop over the asset classes reaches a class: its exposure is taken
\* once, and one _notify with a _force_flatten is due for every limit it
\* exceeds
ScanClass ==
    /\ scan.pc \in {"symbols", "classes"}
    /\ scan.work = <<>>
    /\ scan.flatten = 0
    /\ scan.pc = "symbols" => DOMAIN scan.todo = {}
    /\ LET classes == IF scan.pc = "symbols" THEN DOMAIN limits.asset_class_limits
                      ELSE scan.classes
       IN IF classes = {}
          THEN /\ scan' = ScanIdle
               /\ ret' = [op |-> "scan_end"]
          ELSE \E cls_name \in classes :
                  /\ scan' = [scan EXCEPT
                                 !.pc = "classes",
                                 !.classes = classes \ {cls_name},
                                 !.cls = cls_name,
                                 !.flatten = Cardinality(ClassBreaches(cls_name))]
                  /\ ret' = [op |-> "scan_class", cls |-> cls_name]
    /\ UNCHANGED <<riskVars, dataVars, liveVars, traderVars, entryVars, waitVars>>
    /\ UNCHANGED <<hookVars, monitor_stop, monitor_thread, threads, setup, cycleVars>>

\* _notify and _force_flatten for an exceeded class limit: _handle_violation
\* is due for every position of the class now in the ledger; an exception
\* that leaves _notify ends the scan in _monitor_loop's except clause
ForceFlatten ==
    /\ scan.pc = "classes"
    /\ scan.work = <<>>
    /\ scan.flatten > 0
    /\ IF notify = "raises"
       THEN /\ scan' = [ScanIdle EXCEPT !.error = TRUE]
            /\ ret' = [op |-> "scan_error"]
       ELSE /\ \E w \in Orderings(ClassSymbols(scan.cls)) :
                   scan' = [scan EXCEPT !.work = w, !.flatten = @ - 1]
            /\ ret' = [op |-> "force_flatten", cls |-> scan.cls]
    /\ UNCHANGED <<riskVars, dataVars, liveVars, traderVars, entryVars, waitVars>>
    /\ UNCHANGED <<hookVars, monitor_stop, monitor_thread, threads, setup, cycleVars>>

\* _handle_violation up to the callback: _notify, then the callback is
\* called; without a callback, or when the callback raises, the monitor runs
\* exit_position itself
handle_violation(symbol) ==
    IF notify = "raises"
    THEN /\ scan' = [ScanIdle EXCEPT !.error = TRUE]
         /\ ret' = [op |-> "scan_error"]
         /\ UNCHANGED positions
    ELSE IF force_exit_callback = "engine"
    THEN /\ scan' = [scan EXCEPT !.callback = "called"]
         /\ ret' = [op |-> "handle_violation", symbol |-> symbol, exit_by |-> "callback",
                    was_open |-> IsOpen(symbol)]
         /\ UNCHANGED positions
    ELSE /\ exit_position(symbol)
         /\ scan' = [scan EXCEPT !.work = Tail(@)]
         /\ ret' = [op |-> "handle_violation", symbol |-> symbol, exit_by |-> "monitor",
                    was_open |-> IsOpen(symbol)]

HandleViolation ==
    /\ scan.work # <<>>
    /\ scan.callback = "idle"
    /\ handle_violation(Head(scan.work))
    /\ UNCHANGED <<limits, equityVars, dataVars, liveVars, traderVars, entryVars, waitVars>>
    /\ UNCHANGED <<hookVars, monitor_stop, monitor_thread, threads, setup, cycleVars>>

\* what Trader.buy / Trader.sell answer: an OrderResult, never an exception
OrderResults(lots) == {o \in Outcomes(lots) : o.kind = "result"}

\* the order that closes quantity lots of a position: a sell for a long, a
\* buy for a short, nothing for no position
closing_order(symbol, quantity) ==
    IF quantity > 0 THEN \E uid \in Uids : submit_order(symbol, quantity, "sell", uid)
    ELSE IF quantity < 0 THEN \E uid \in Uids : submit_order(symbol, -quantity, "buy", uid)
    ELSE UNCHANGED submitted

\* Engine._force_exit_position up to its order: it returns at once when the
\* position is gone, else it sends the closing order
ForceExitOrder ==
    /\ scan.callback = "called"
    /\ LET symbol == Head(scan.work)
       IN IF ~IsOpen(symbol)
          THEN /\ scan' = [scan EXCEPT !.callback = "idle", !.work = Tail(@)]
               /\ UNCHANGED submitted
               /\ ret' = [op |-> "force_exit", symbol |-> symbol, lots |-> 0]
          ELSE /\ scan' = [scan EXCEPT !.callback = "ordered"]
               /\ closing_order(symbol, positions[symbol].quantity)
               /\ ret' = [op |-> "force_exit", symbol |-> symbol,
                          lots |-> positions[symbol].quantity]
    /\ UNCHANGED <<riskVars, dataVars, liveVars, entryVars, waitVars>>
    /\ UNCHANGED <<hookVars, monitor_stop, monitor_thread, threads, setup, cycleVars>>

\* Engine._force_exit_position after its order: exit_position
ForceExitDone ==
    /\ scan.callback = "ordered"
    /\ exit_position(Head(scan.work))
    /\ scan' = [scan EXCEPT !.callback = "idle", !.work = Tail(@)]
    /\ ret' = [op |-> "force_exit_done", symbol |-> Head(scan.work)]
    /\ UNCHANGED <<limits, equityVars, dataVars, liveVars, traderVars, entryVars, waitVars>>
    /\ UNCHANGED <<hookVars, monitor_stop, monitor_thread, threads, setup, cycleVars>>

\* ------------------------------------------------- Engine: the live cycle
\* the live cycle as Engine.run_live_once and as live_loop.run_live_cycle
CyclePaths == {"engine", "live_loop"}

\* symbol=None of allowed_position_size
NoSymbol == ""

CycleIdle ==
    [pc |-> "idle", path |-> "", symbol |-> "", price |-> 0, signal |-> 0, lots |-> 0]

CycleInit == cycle = CycleIdle

\* run_live_once for a symbol with a price: update_position_price and
\* check_exit; the exit handling follows when check_exit fires
CycleCheckExit ==
    \E symbol \in Symbols, price \in Prices :
        /\ cycle.pc = "idle"
        /\ check_exit(symbol, price)
        /\ cycle' = IF ret'.value
                    THEN [CycleIdle EXCEPT !.pc = "fired", !.symbol = symbol, !.price = price]
                    ELSE CycleIdle
        /\ UNCHANGED <<limits, equityVars, dataVars, liveVars, traderVars, entryVars, waitVars>>
        /\ UNCHANGED <<hookVars, monitorVars>>

\* the exit handling reads the quantity to close and sends the order
CycleClose ==
    /\ cycle.pc = "fired"
    /\ LET lots_to_close == IF IsOpen(cycle.symbol) THEN positions[cycle.symbol].quantity
                            ELSE 0
       IN /\ closing_order(cycle.symbol, lots_to_close)
          /\ ret' = [op |-> "cycle_close", symbol |-> cycle.symbol, lots |-> lots_to_close]
    /\ cycle' = [cycle EXCEPT !.pc = "ordered"]
    /\ UNCHANGED <<riskVars, dataVars, liveVars, entryVars, waitVars>>
    /\ UNCHANGED <<hookVars, monitorVars>>

\* the exit handling ends with exit_position
CycleExit ==
    /\ cycle.pc = "ordered"
    /\ exit_position(cycle.symbol)
    /\ cycle' = CycleIdle
    /\ ret' = [op |-> "cycle_exit", symbol |-> cycle.symbol]
    /\ UNCHANGED <<limits, equityVars, dataVars, liveVars, traderVars, entryVars, waitVars>>
    /\ UNCHANGED <<hookVars, monitorVars>>

\* the lots of the position the cycle is looking at, 0 without a position
CycleQuantity(symbol) == IF IsOpen(symbol) THEN positions[symbol].quantity ELSE 0

\* where a signal takes the cycle: to the closing of an opposite position,
\* to an entry, or nowhere
SignalTarget(path, symbol, signal, lots) ==
    LET qty == CycleQuantity(symbol)
    IN IF signal > 0
       THEN IF ~IsOpen(symbol) THEN (IF lots > 0 THEN "enter" ELSE "idle")
            ELSE IF qty < 0 THEN "reverse" ELSE "idle"
       ELSE IF path = "engine"
            THEN IF ~limits.allow_short THEN "idle"
                 ELSE IF qty > 0 THEN "reverse"
                 ELSE IF lots > 0 THEN "enter" ELSE "idle"
            ELSE IF IsOpen(symbol) /\ qty > 0 THEN "reverse"
                 ELSE IF IsOpen(symbol) /\ qty < 0 THEN "idle"
                 ELSE IF limits.allow_short /\ lots > 0 THEN "enter" ELSE "idle"

\* the cycle has the strategy's last signal for a symbol whose exit check
\* did not fire, and sizes the entry
CycleSignal ==
    \E path \in CyclePaths, symbol \in Symbols, price \in Prices, signal \in {-1, 1} :
        LET allowed_lots == IF path = "engine" THEN allowed_position_size(price, symbol)
                            ELSE allowed_position_size(price, NoSymbol)
            target == SignalTarget(path, symbol, signal, allowed_lots)
        IN /\ cycle.pc = "idle"
           /\ cycle' = IF target = "idle" THEN CycleIdle
                        ELSE [pc |-> target, path |-> path, symbol |-> symbol,
                              price |-> price, signal |-> signal, lots |-> allowed_lots]
           /\ ret' = NoRet
           /\ UNCHANGED <<riskVars, dataVars, liveVars, traderVars, entryVars, waitVars>>
           /\ UNCHANGED <<hookVars, monitorVars>>

\* the opposite position is closed: the order, then exit_position; the entry
\* follows when lots were allowed
CycleReverse ==
    /\ cycle.pc = "reverse"
    /\ Len(submitted) < MaxOrders
    /\ closing_order(cycle.symbol, CycleQuantity(cycle.symbol))
    /\ exit_position(cycle.symbol)
    /\ cycle' = [cycle EXCEPT
                    !.pc = IF /\ cycle.lots > 0
                              /\ (cycle.signal > 0 \/ cycle.path = "engine" \/ limits.allow_short)
                           THEN "enter" ELSE "idle"]
    /\ ret' = NoRet
    /\ UNCHANGED <<limits, equityVars, dataVars, liveVars, entryVars, waitVars>>
    /\ UNCHANGED <<hookVars, monitorVars>>

\* register_entry as the path calls it: the Engine passes strategy=, which
\* register_entry does not take, so the call raises TypeError
cycle_register(path, symbol, price, quantity) ==
    IF path = "engine" THEN UNCHANGED positions
    ELSE register_entry(symbol, price, quantity)

\* the entry: the order goes out, and register_entry follows whatever the
\* trader answered
CycleEnter ==
    \E uid \in Uids, outcome \in OrderResults(cycle.lots) :
        /\ cycle.pc = "enter"
        /\ Len(submitted) < MaxOrders
        /\ submit_order(cycle.symbol, cycle.lots, IF cycle.signal > 0 THEN "buy" ELSE "sell", uid)
        /\ cycle_register(cycle.path, cycle.symbol, cycle.price, cycle.signal * cycle.lots)
        /\ cycle' = CycleIdle
        /\ ret' = [op |-> "cycle_entry", symbol |-> cycle.symbol, lots |-> cycle.lots,
                   outcome |-> outcome, was_open |-> IsOpen(cycle.symbol),
                   raised |-> cycle.path = "engine"]
        /\ UNCHANGED <<limits, equityVars, dataVars, liveVars, entryVars, waitVars>>
        /\ UNCHANGED <<hookVars, monitorVars>>

\* -------------------------------------------- the equity after a sweep
\* sum of quantity * last_price over the ledger, shorts negative
RECURSIVE SumSignedValue(_)
SumSignedValue(S) ==
    IF S = {} THEN 0
    ELSE LET s == CHOOSE x \in S : TRUE
         IN positions[s].quantity * positions[s].last_price + SumSignedValue(S \ {s})

\* sum of (price - entry_price) * quantity over the symbols that have a price
RECURSIVE SumPnl(_, _)
SumPnl(S, latest) ==
    IF S = {} THEN 0
    ELSE LET s == CHOOSE x \in S : TRUE
             pnl == IF latest[s] = {} THEN 0
                    ELSE (Min(latest[s]) - positions[s].entry_price) * positions[s].quantity
         IN pnl + SumPnl(S \ {s}, latest)

\* the prices the ledger holds, as Optional values
LedgerPrices == [s \in DOMAIN positions |-> {positions[s].last_price}]

\* what dp.latest_price may give for the symbols of the ledger: a price or
\* None
LatestPrices == [DOMAIN positions -> {{}} \cup {{p} : p \in Prices}]

\* Engine._mark_to_market: the equity it passes to update_equity
mark_to_market == limits.initial_capital + SumSignedValue(DOMAIN positions)

\* run_live_cycle: the equity it passes to update_equity
cycle_equity(latest) == limits.initial_capital + SumPnl(DOMAIN positions, latest)

\* the sweep is over: the Engine marks the ledger to market and reports the
\* equity
MarkToMarket ==
    \E d \in Days :
        /\ d >= last_equity_date
        /\ update_equity(mark_to_market, d)
        /\ ret' = [op |-> "mark_to_market", path |-> "engine", equity |-> mark_to_market,
                   pnl |-> SumPnl(DOMAIN positions, LedgerPrices)]
        /\ UNCHANGED <<limits, dataVars, tradeVars>>

\* the sweep of run_live_cycle is over: the equity is the capital and the
\* profit or loss at the latest prices
CycleEquity ==
    \E d \in Days, latest \in LatestPrices :
        /\ d >= last_equity_date
        /\ update_equity(cycle_equity(latest), d)
        /\ ret' = [op |-> "mark_to_market", path |-> "live_loop",
                   equity |-> cycle_equity(latest),
                   pnl |-> SumPnl(DOMAIN positions, latest)]
        /\ UNCHANGED <<limits, dataVars, tradeVars>>

\* ------------------------------------------ RiskManager: monitor threads
\* The times of the monitor are counted in half seconds, and so is
\* monitor_interval: stop_monitoring joins for 1.0 s, the loop sleeps
\* max(monitor_interval, 0.5) s.
join_timeout == 2

sleep_time == Max({limits.monitor_interval, 1})

\* _create_risk_manager has not built the RiskManager
SetupNone == [pc |-> "none", left |-> 0]

MonitorInit ==
    /\ monitor_stop = FALSE
    /\ monitor_thread = 0
    /\ threads = <<>>
    /\ setup = SetupNone
    /\ scan = ScanIdle

\* threading.Thread.is_alive() of self._monitor_thread
is_alive == monitor_thread # 0 /\ threads[monitor_thread].pc # "ended"

\* start_monitoring: nothing while the thread is alive, else the stop flag
\* is cleared and a new thread runs _monitor_loop
start_monitoring ==
    IF is_alive
    THEN UNCHANGED <<monitor_stop, monitor_thread, threads>>
    ELSE /\ monitor_stop' = FALSE
         /\ threads' = Append(threads, [pc |-> "testing", left |-> 0])
         /\ monitor_thread' = Len(threads) + 1

\* RiskManager(...): __post_init__ starts the monitor when monitor_interval
\* is positive
Construct ==
    /\ setup.pc = "none"
    /\ IF limits.monitor_interval > 0 THEN start_monitoring
       ELSE UNCHANGED <<monitor_stop, monitor_thread, threads>>
    /\ setup' = [pc |-> "constructed", left |-> 0]
    /\ UNCHANGED <<riskVars, ret, dataVars, liveVars, traderVars, entryVars, waitVars>>
    /\ UNCHANGED <<hookVars, scan, cycleVars>>

\* stop_monitoring up to its join: the stop flag is set, and a thread that
\* is alive is joined for join_timeout
StopMonitoring ==
    /\ setup.pc = "constructed"
    /\ monitor_stop' = TRUE
    /\ setup' = IF is_alive THEN [pc |-> "joining", left |-> join_timeout]
                ELSE [pc |-> "stopped", left |-> 0]
    /\ UNCHANGED <<monitor_thread, threads>>
    /\ UNCHANGED <<riskVars, ret, dataVars, liveVars, traderVars, entryVars, waitVars>>
    /\ UNCHANGED <<hookVars, scan, cycleVars>>

\* join returns: the thread has ended, or the timeout has passed
JoinReturns ==
    /\ setup.pc = "joining"
    /\ ~is_alive \/ setup.left = 0
    /\ setup' = [pc |-> "stopped", left |-> 0]
    /\ UNCHANGED <<monitor_stop, monitor_thread, threads>>
    /\ UNCHANGED <<riskVars, ret, dataVars, liveVars, traderVars, entryVars, waitVars>>
    /\ UNCHANGED <<hookVars, scan, cycleVars>>

\* if rm.monitor_interval > 0: rm.start_monitoring()
Restart ==
    /\ setup.pc = "stopped"
    /\ IF limits.monitor_interval > 0 THEN start_monitoring
       ELSE UNCHANGED <<monitor_stop, monitor_thread, threads>>
    /\ setup' = [pc |-> "restarted", left |-> 0]
    /\ UNCHANGED <<riskVars, ret, dataVars, liveVars, traderVars, entryVars, waitVars>>
    /\ UNCHANGED <<hookVars, scan, cycleVars>>

\* _monitor_loop at its while: the loop ends when the stop flag is set, else
\* it scans the ledger, which is empty, and goes to sleep
LoopTest ==
    \E t \in DOMAIN threads :
        /\ threads[t].pc = "testing"
        /\ threads' = [threads EXCEPT
                          ![t] = IF monitor_stop THEN [pc |-> "ended", left |-> 0]
                                 ELSE [pc |-> "sleeping", left |-> sleep_time]]
        /\ ret' = IF monitor_stop THEN NoRet ELSE [op |-> "scan_end", thread |-> t]
        /\ UNCHANGED <<monitor_stop, monitor_thread, setup>>
        /\ UNCHANGED <<riskVars, dataVars, liveVars, traderVars, entryVars, waitVars>>
        /\ UNCHANGED <<hookVars, scan, cycleVars>>

\* time.sleep returns
WakeUp ==
    \E t \in DOMAIN threads :
        /\ threads[t].pc = "sleeping"
        /\ threads[t].left = 0
        /\ threads' = [threads EXCEPT ![t] = [pc |-> "testing", left |-> 0]]
        /\ UNCHANGED <<monitor_stop, monitor_thread, setup>>
        /\ UNCHANGED <<riskVars, ret, dataVars, liveVars, traderVars, entryVars, waitVars>>
        /\ UNCHANGED <<hookVars, scan, cycleVars>>

\* Half a second passes for the sleeping loops and the joining caller; a
\* loop that is due, and a join that is due, go first.
MonitorTick ==
    /\ \A t \in DOMAIN threads :
          /\ threads[t].pc # "testing"
          /\ threads[t].pc = "sleeping" => threads[t].left > 0
    /\ setup.pc = "joining" => setup.left > 0
    /\ \/ setup.pc = "joining"
       \/ \E t \in DOMAIN threads : threads[t].pc = "sleeping"
    /\ threads' = [t \in DOMAIN threads |->
                      IF threads[t].pc = "sleeping"
                      THEN [threads[t] EXCEPT !.left = @ - 1] ELSE threads[t]]
    /\ setup' = IF setup.pc = "joining" THEN [setup EXCEPT !.left = @ - 1] ELSE setup
    /\ UNCHANGED <<monitor_stop, monitor_thread>>
    /\ UNCHANGED <<riskVars, ret, dataVars, liveVars, traderVars, entryVars, waitVars>>
    /\ UNCHANGED <<hookVars, scan, cycleVars>>

ControlIdle == HookInit /\ MonitorInit /\ CycleInit

\* ---------------------------------------------------------- specifications
vars == <<riskVars, ret, dataVars, tradeVars>>

\* a provider without sources and without history files
DataIdle == DataInitWith({FALSE}, {FALSE}, {[s \in Symbols |-> None]})

\* no LiveTrader call, no order, no entry path, no wait, no monitor and no
\* live cycle has started
TradeIdle == LiveInit /\ TraderInit /\ EntryInit /\ WaitInit /\ ControlIdle

Init == RiskInitWith(LimitSets) /\ ret = NoRet /\ DataIdle /\ TradeIdle

Next ==
    \/ UpdateEquity
    \/ RegisterEntry
    \/ CheckExit
    \/ MarkPrice
    \/ ExitPosition

\* the RiskManager, its operations called in any order
Spec == Init /\ [][Next]_vars

NextEntries ==
    \/ SizedEntry
    \/ ExitPosition

\* the RiskManager under entries sized by allowed_position_size
SpecEntries == Init /\ [][NextEntries]_vars

InitPrice ==
    /\ RiskInitWith({DefaultLimits})
    /\ ret = NoRet
    /\ DataInitWith(BOOLEAN, BOOLEAN, [Symbols -> HistoryValues])
    /\ TradeIdle

NextPrice ==
    \/ GetPrice
    \/ LatestPrice
    \/ DisableNetwork
    \/ EnableNetwork
    \/ InvalidateCache
    \/ CacheExpires

\* the DataProvider, its operations called in any order
SpecPrice == InitPrice /\ [][NextPrice]_vars

\* a RiskManager with one position slot and shorts allowed
LiveLimits == [DefaultLimits EXCEPT !.allow_short = TRUE, !.max_positions = 1]

\* The ledgers a LiveTrader may find: no position, or the one position that
\* a register_entry on the new RiskManager leaves.
OneEntryLedgers ==
    {[s \in {} |-> 0]}
        \cup {[s \in {symbol} |-> NewPosition(price, quantity)] :
                 symbol \in Symbols, price \in Prices, quantity \in Quantities \ {0}}

\* The LiveTrader is attached to a RiskManager that is new, or holds one
\* position, or was halted (test_live_trader_honours_risk_halt).
InitLive ==
    /\ limits = LiveLimits
    /\ halt_trading \in BOOLEAN
    /\ last_equity_date = 0
    /\ portfolio_equity = limits.initial_capital
    /\ peak_equity = limits.initial_capital
    /\ day_start_equity = limits.initial_capital
    /\ positions \in OneEntryLedgers
    /\ halt_trading => positions = [s \in {} |-> 0]
    /\ ret = NoRet
    /\ DataIdle
    /\ TradeIdle

NextLive ==
    \/ LiveBuy
    \/ LiveSell
    \/ Attempt
    \/ UpdatePrice

\* the LiveTrader over its RiskManager
SpecLive == InitLive /\ [][NextLive]_vars

NextSubmit ==
    \/ LiveBuy
    \/ LiveSell
    \/ Attempt

\* buy and sell alone; the trader answers every attempt (each attempt is
\* timed out at the transport layer)
SpecSubmit == InitLive /\ [][NextSubmit]_vars /\ WF_vars(Attempt)

\* the Trader's order ids
SpecIds == Init /\ [][SubmitOrder]_vars

InitRace == RiskInitWith({DefaultLimits}) /\ ret = NoRet /\ DataIdle /\ TradeIdle

NextRace == \E c \in Contexts : SizeEntry(c) \/ ConfirmEntry(c)

\* two entry paths against one RiskManager, their steps interleaved
SpecRace == InitRace /\ [][NextRace]_vars

NextWait ==
    \/ OnPrice
    \/ WaitForPrice
    \/ QueueGet
    \/ Tick
    \/ WaitTimeout

\* the Engine waiting for streamed prices
SpecWait == InitRace /\ [][NextWait]_vars

\* a RiskManager that takes longs only, and one that takes shorts too; each
\* holds one position at a time
LedgerLimits ==
    { [DefaultLimits EXCEPT !.max_positions = 1],
      [DefaultLimits EXCEPT !.allow_short = TRUE, !.max_positions = 1,
                            !.stop_loss_pct = 50, !.take_profit_pct = 50] }

InitLedger == RiskInitWith(LedgerLimits) /\ ret = NoRet /\ DataIdle /\ TradeIdle

\* the RiskManager's ledger under its operations called in any order
SpecLedger == InitLedger /\ [][Next]_vars

NextRegister ==
    \/ UpdateEquity
    \/ RegisterEntry
    \/ ExitPosition

\* entries offered to a RiskManager that gains and loses equity and has
\* positions closed
SpecRegister == Init /\ [][NextRegister]_vars

\* A RiskManager with limits for the monitor to watch: AAA may take a
\* quarter of the equity and one lot, BBB is the one instrument of the class
\* "equity", which may take half of the equity.
ScanLimits ==
    [DefaultLimits EXCEPT
        !.allow_short = TRUE,
        !.instrument_limits =
            [s \in {"AAA"} |-> [NoLimit EXCEPT !.max_position_pct = {25}, !.max_lots = {1}]],
        !.instrument_classes = [s \in {"BBB"} |-> "equity"],
        !.asset_class_limits =
            [c \in {"equity"} |-> [NoClassLimit EXCEPT !.max_exposure_pct = {50}]]]

\* the ledgers that register_entry calls on a new RiskManager leave
EntryLedgers ==
    UNION {[S -> {NewPosition(price, quantity) :
                     price \in Prices, quantity \in Quantities \ {0}}] :
              S \in SUBSET Symbols}

\* The monitor finds one of the given ledgers, under any callback and any
\* notifier.
InitScanWith(ledgers) ==
    /\ limits = ScanLimits
    /\ halt_trading = FALSE
    /\ last_equity_date = 0
    /\ portfolio_equity = limits.initial_capital
    /\ peak_equity = limits.initial_capital
    /\ day_start_equity = limits.initial_capital
    /\ positions \in ledgers
    /\ ret = NoRet
    /\ DataIdle
    /\ LiveInit /\ TraderInit /\ EntryInit /\ WaitInit
    /\ force_exit_callback \in Callbacks
    /\ notifier \in Notifiers
    /\ MonitorInit
    /\ CycleInit

NextScan ==
    \/ ScanBegin
    \/ ScanSymbol
    \/ ScanClass
    \/ ForceFlatten
    \/ HandleViolation
    \/ ForceExitOrder
    \/ ForceExitDone

\* the monitor's scans of a ledger that entries have filled
SpecScan == InitScanWith(EntryLedgers) /\ [][NextScan]_vars

NextNotify ==
    \/ NextScan
    \/ UpdateEquity

\* the monitor's scans next to the equity updates of the live cycle, over a
\* ledger of at most one position
SpecNotify == InitScanWith(OneEntryLedgers) /\ [][NextNotify]_vars

\* The Engine has installed its _force_exit_position as the callback; the
\* monitor thread and the live cycle find a ledger that entries have filled.
InitExit ==
    /\ InitScanWith(EntryLedgers)
    /\ force_exit_callback = "engine"
    /\ notifier = "none"

NextExit ==
    \/ NextScan
    \/ CycleCheckExit
    \/ CycleClose
    \/ CycleExit

\* the monitor thread's forced exits next to the exit handling of the live
\* cycle
SpecExit == InitExit /\ [][NextExit]_vars

InitMark ==
    /\ RiskInitWith({LiveLimits})
    /\ ret = NoRet
    /\ DataIdle
    /\ TradeIdle

NextMark ==
    \/ RegisterEntry
    \/ MarkPrice
    \/ MarkToMarket
    \/ CycleEquity

\* entries and price marks, and the equity reported after each sweep
SpecMark == InitMark /\ [][NextMark]_vars

\* monitor_interval as configured: off, 0.5 s, 1 s, 2 s and the default 5 s
MonitorIntervals == {0, 1, 2, 4, 10}

\* _create_risk_manager is about to build the RiskManager
InitMonitor ==
    /\ limits \in {[DefaultLimits EXCEPT !.monitor_interval = i] : i \in MonitorIntervals}
    /\ halt_trading = FALSE
    /\ last_equity_date = 0
    /\ portfolio_equity = limits.initial_capital
    /\ peak_equity = limits.initial_capital
    /\ day_start_equity = limits.initial_capital
    /\ positions = [s \in {} |-> 0]
    /\ ret = NoRet
    /\ DataIdle
    /\ TradeIdle

NextMonitor ==
    \/ Construct
    \/ StopMonitoring
    \/ JoinReturns
    \/ Restart
    \/ LoopTest
    \/ WakeUp
    \/ MonitorTick

\* the monitor threads of a RiskManager that the Engine builds; every thread
\* gets to run and time passes
SpecMonitor == InitMonitor /\ [][NextMonitor]_vars /\ WF_vars(NextMonitor)

\* The live cycle runs against a RiskManager that allows shorts and has one
\* position slot, which is free or taken.
InitCycle ==
    /\ limits = LiveLimits
    /\ halt_trading = FALSE
    /\ last_equity_date = 0
    /\ portfolio_equity = limits.initial_capital
    /\ peak_equity = limits.initial_capital
    /\ day_start_equity = limits.initial_capital
    /\ positions \in OneEntryLedgers
    /\ ret = NoRet
    /\ DataIdle
    /\ TradeIdle

NextCycle ==
    \/ CycleCheckExit
    \/ CycleClose
    \/ CycleExit
    \/ CycleSignal
    \/ CycleReverse
    \/ CycleEnter

\* the live cycle, symbol after symbol
SpecCycle == InitCycle /\ [][NextCycle]_vars

\* ------------------------------------------------------------------ claims
\* prices and symbols a caller may size for ("" is a call without symbol)
SizingPrices == 0..MaxPrice
SizingSymbols == Symbols \cup {""}

\* gross exposure: the sum of |quantity| x last_price over the ledger
RECURSIVE LedgerValue(_)
LedgerValue(S) ==
    IF S = {} THEN 0
    ELSE LET s == CHOOSE x \in S : TRUE
         IN (IF positions[s].quantity < 0 THEN -positions[s].quantity ELSE positions[s].quantity)
                * positions[s].last_price + LedgerValue(S \ {s})

GrossExposure == LedgerValue(DOMAIN positions)

\* effective_exposure_cap as the specification defines it
SpecifiedCap == Min({limits.max_leverage, limits.max_portfolio_exposure_pct})

\* the cap as amended: an exposure percentage of exactly 1.0 (or 0.0) is
\* "not set" and leaves max_leverage as the cap
AmendedCap ==
    IF limits.max_portfolio_exposure_pct \in {0, Scale}
    THEN limits.max_leverage
    ELSE Min({limits.max_leverage, limits.max_portfolio_exposure_pct})

\* C1 as stated: after entries that respect AllowedSize, gross exposure is
\* at most equity x min(max_leverage, max_portfolio_exposure_pct) plus one
\* lot's value.
C1_ExposureWithinSpecifiedCap ==
    Scale * GrossExposure <= portfolio_equity * SpecifiedCap + Scale * MaxPrice

\* C1 amended: after entries that respect AllowedSize, gross exposure is at
\* most equity x cap, where the cap is max_leverage when the exposure
\* percentage is exactly 1.0 (or 0.0) and the smaller of the two otherwise.
C1_ExposureWithinCap ==
    Scale * GrossExposure <= portfolio_equity * AmendedCap

\* two sized entries have filled the cap of a leveraged ledger exactly
C1_Witness ==
    /\ ret.op = "sized_entry"
    /\ Cardinality(DOMAIN positions) = 2
    /\ limits.max_leverage > Scale
    /\ Scale * GrossExposure = portfolio_equity * AmendedCap

\* an UpdateEquity step that observes a new calendar day
NewDayUpdate == UpdateEquity /\ last_equity_date' # last_equity_date

AllSizesZero ==
    \A p \in SizingPrices, s \in SizingSymbols : allowed_position_size(p, s) = 0

\* C2: once halt_trading is true, AllowedSize is 0 for every price and
\* symbol, and every step other than an UpdateEquity on a new calendar day
\* leaves halt_trading true.
C2_HaltUntilNewDay ==
    /\ [](halt_trading => AllSizesZero)
    /\ [][(halt_trading /\ ~NewDayUpdate) => halt_trading']_vars

\* a same-day UpdateEquity without a loss has run on a halted controller
C2_Witness ==
    /\ halt_trading
    /\ ret.op = "update_equity"
    /\ ret.equity >= day_start_equity

\* C3: after an UpdateEquity(e) whose daily loss
\* (day_start_equity - e) / day_start_equity reaches max_daily_loss_pct,
\* halt_trading is true and the ledger is empty.
C3_BreachHaltsAndClears ==
    (/\ ret.op = "update_equity"
     /\ day_start_equity > 0
     /\ (day_start_equity - ret.equity) * Scale >= limits.max_daily_loss_pct * day_start_equity)
    => (halt_trading /\ DOMAIN positions = {})

\* a breaching update found positions open
C3_Witness ==
    /\ ret.op = "update_equity"
    /\ ret.open_before # {}
    /\ (day_start_equity - ret.equity) * Scale >= limits.max_daily_loss_pct * day_start_equity
    /\ halt_trading

StopsMonotone ==
    \A s \in DOMAIN positions \cap DOMAIN positions' :
        IF positions[s].quantity > 0
        THEN positions'[s].trailing_stop >= positions[s].trailing_stop
        ELSE positions'[s].trailing_stop <= positions[s].trailing_stop

\* C4: across CheckExit and MarkPrice steps the trailing stop of a long
\* position never decreases and that of a short position never increases.
C4_TrailingStopMonotone ==
    [][StopsMonotone \/ ~(CheckExit \/ MarkPrice)]_vars

\* a position whose stop was ratcheted by a price and then saw a price on
\* the losing side of that one
C4_Witness ==
    \E s \in DOMAIN positions :
        LET pos == positions[s]
        IN /\ ret.op = "check_exit"
           /\ pos.trailing_stop # pos.stop_price
           /\ IF pos.quantity > 0
              THEN pos.last_price * (Scale - limits.stop_loss_pct) < pos.trailing_stop
              ELSE pos.last_price * (Scale + limits.stop_loss_pct) > pos.trailing_stop

\* C5: CheckExit returns true on a long exactly when price <= trailing_stop
\* (as ratcheted with this price) or price >= take_profit, on a short
\* exactly when price >= trailing_stop or price <= take_profit, and false
\* on a symbol with no position.
C5_CheckExitResult ==
    ret.op = "check_exit" =>
        IF ret.symbol \notin DOMAIN positions
        THEN ret.value = FALSE
        ELSE LET pos == positions[ret.symbol]
                 px == ret.price * Scale
             IN ret.value =
                 IF pos.quantity > 0
                 THEN (px <= pos.trailing_stop \/ px >= pos.take_profit)
                 ELSE (px >= pos.trailing_stop \/ px <= pos.take_profit)

\* a take-profit exit of a short position
C5_Witness ==
    /\ ret.op = "check_exit"
    /\ ret.value = TRUE
    /\ ret.symbol \in DOMAIN positions
    /\ positions[ret.symbol].quantity < 0
    /\ ret.price * Scale <= positions[ret.symbol].take_profit

\* C6 as stated: AllowedSize is 0 wherever gross exposure at the marked
\* prices is at least equity x min(max_leverage, max_portfolio_exposure_pct).
C6_ZeroAtSpecifiedCap ==
    Scale * GrossExposure >= portfolio_equity * SpecifiedCap
        => AllSizesZero

\* C6 amended: AllowedSize is 0 wherever gross exposure at the marked prices
\* is at least equity x cap, the cap being max_leverage when the exposure
\* percentage is exactly 1.0 (or 0.0) and the smaller of the two otherwise.
C6_ZeroAtCap ==
    Scale * GrossExposure >= portfolio_equity * AmendedCap
        => AllSizesZero

\* exposure below the cap at the entry prices has reached a 100% cap
\* through a mark
C6_Witness ==
    /\ ~halt_trading
    /\ limits.max_portfolio_exposure_pct = Scale
    /\ limits.max_leverage = Scale
    /\ Scale * gross_exposure_at_entry < portfolio_equity * AmendedCap
    /\ Scale * GrossExposure >= portfolio_equity * AmendedCap

Leveraged ==
    limits.max_leverage > Scale /\ limits.max_portfolio_exposure_pct = Scale

\* C7 as stated: with leverage L > 1 and the exposure percentage at 1.0,
\* AllowedSize is positive while gross exposure is below equity x L (trading
\* not halted) and 0 once it reaches equity x L.
C7_PositiveBelowLeverage ==
    (Leveraged /\ ~halt_trading) =>
        \A p \in Prices, s \in SizingSymbols :
            IF Scale * GrossExposure < portfolio_equity * limits.max_leverage
            THEN allowed_position_size(p, s) > 0
            ELSE allowed_position_size(p, s) = 0

\* whether the caps other than the portfolio's admit one lot at this price
OtherCapsAdmitALot(p, s) ==
    /\ portfolio_equity * limits.per_trade_risk_pct >= p * limits.stop_loss_pct
    /\ portfolio_equity * limits.max_position_pct >= Scale * p
    /\ s \notin DOMAIN limits.instrument_limits

\* C7 amended: with leverage L > 1 and the exposure percentage at 1.0,
\* AllowedSize(price) is positive while trading is not halted, the remaining
\* capacity equity x L - gross exposure is at least one lot's value at that
\* price and the per-trade and per-position caps admit a lot; it is 0 once
\* gross exposure reaches equity x L.
C7_LeverageCapacity ==
    (Leveraged /\ ~halt_trading) =>
        \A p \in Prices, s \in SizingSymbols :
            /\ (/\ OtherCapsAdmitALot(p, s)
                /\ portfolio_equity * limits.max_leverage - Scale * GrossExposure
                       >= Scale * p)
               => allowed_position_size(p, s) > 0
            /\ Scale * GrossExposure >= portfolio_equity * limits.max_leverage
               => allowed_position_size(p, s) = 0

\* open positions are worth at least 100% of equity and a lot is still allowed
C7_Witness ==
    /\ Leveraged
    /\ ~halt_trading
    /\ GrossExposure >= portfolio_equity
    /\ \E p \in Prices : allowed_position_size(p, "") > 0

\* the fallback chain of the specification over one completed get_price call:
\* the answers the configured sources give, the cache as the call found it,
\* the last close of the history
AnswerOf(name, r) ==
    IF name = "stream" THEN (IF sources.stream THEN r.offered.stream ELSE None)
    ELSE IF name = "rest" THEN (IF sources.rest THEN r.offered.rest ELSE None)
    ELSE IF name = "cache" THEN r.cached
    ELSE history[r.symbol]

ChainOrder == <<"stream", "rest", "cache", "history">>

RECURSIVE FirstValid(_, _)
FirstValid(r, i) ==
    IF i > Len(ChainOrder) THEN None
    ELSE IF validator(AnswerOf(ChainOrder[i], r)) THEN AnswerOf(ChainOrder[i], r)
    ELSE FirstValid(r, i + 1)

\* no source has a valid price, nothing is cached, there is no history
YieldsNothing(r) ==
    /\ ~validator(AnswerOf("stream", r))
    /\ ~validator(AnswerOf("rest", r))
    /\ AnswerOf("cache", r) = None
    /\ AnswerOf("history", r) = None

\* a source was called exactly when it is configured and no source before it
\* gave a valid price
CalledInOrder(r) ==
    /\ ("stream" \in r.called) = sources.stream
    /\ ("rest" \in r.called) = (sources.rest /\ ~validator(AnswerOf("stream", r)))

\* C8: with the network enabled, GetPrice asks the streaming source, then the
\* REST source, then the cache (fresh before stale), then the history, and
\* returns the price of the first of them that has a valid one; a source that
\* raises or gives an invalid price is passed over and the failure does not
\* reach the caller; None is returned only when none of them yields anything.
C8_FallbackChain ==
    (ret.op = "get_price" /\ ret.enabled) =>
        /\ ret.value # Raise
        /\ CalledInOrder(ret)
        /\ FirstValid(ret, 1) # None => ret.value = FirstValid(ret, 1)
        /\ ret.value = None => YieldsNothing(ret)

\* a call in which the streaming source raised, the REST source gave an
\* invalid price, and the price came from a stale cache entry
C8_Witness ==
    /\ ret.op = "get_price" /\ ret.enabled
    /\ ret.called = {"stream", "rest"}
    /\ ret.offered.stream = Raise
    /\ ret.offered.rest = Some(0)
    /\ ret.cached = ret.value /\ ret.value # None
    /\ ret.symbol \in DOMAIN cache /\ ~cache[ret.symbol].fresh

\* C9: after DisableNetwork, GetPrice consults no network source and returns
\* the cached price, or the last historical close when nothing is cached;
\* after EnableNetwork the configured sources are consulted again.
C9_DisabledUsesCacheThenHistory ==
    ret.op = "get_price" =>
        /\ ~ret.enabled =>
              /\ ret.called = {}
              /\ ret.value = (IF ret.cached # None THEN ret.cached ELSE history[ret.symbol])
        /\ ret.enabled => CalledInOrder(ret)

\* C10: every price GetPrice returns is greater than zero, and so is every
\* price held in the cache.
C10_ReturnedPricesPositive ==
    /\ (ret.op = "get_price" /\ ret.value # None) => validator(ret.value)
    /\ \A s \in DOMAIN cache : cache[s].price > 0

\* the last step of a LiveTrader buy or sell, as its caller and the trader saw it
LiveCallStep == ret.op \in {"buy", "sell"}

\* an attempt that raised, or whose status has reject, cancel or error in it
AttemptFailed(outcome) ==
    \/ outcome.kind = "raise"
    \/ outcome.kind = "result" /\ outcome.status \in {"rejected", "cancelled", "error"}

AttemptSucceeded(outcome) ==
    outcome.kind = "result" /\ outcome.status \notin {"rejected", "cancelled", "error"}

RetriesBounded ==
    /\ LiveCallStep => ret.attempt <= max_retries
    /\ call # Idle => call.attempt < max_retries

RetriesAfterFailure ==
    (LiveCallStep /\ AttemptFailed(ret.outcome)) =>
        IF ret.attempt < max_retries
        THEN ~ret.returned /\ call # Idle /\ call.attempt = ret.attempt
        ELSE ret.returned /\ ret.result = NoResult /\ call = Idle

StopsAtSuccess ==
    (LiveCallStep /\ AttemptSucceeded(ret.outcome)) =>
        ret.returned /\ ret.result = ret.outcome /\ call = Idle

\* C11: a Submit with lots > 0 makes at most max_retries calls to the trader,
\* has another attempt due after an attempt that raised or was rejected,
\* cancelled or in error (while attempts remain), returns the first
\* successful result without a further call, and always terminates, with
\* that result or with a failure.
C11_BoundedRetries ==
    /\ [](RetriesBounded /\ RetriesAfterFailure /\ StopsAtSuccess)
    /\ (call # Idle) ~> (call = Idle)

\* a Submit that failed on every attempt but the last and returned the last
\* attempt's result
C11_Witness ==
    /\ LiveCallStep /\ ret.returned
    /\ ret.attempt = max_retries
    /\ ret.result # NoResult
    /\ Len(order_history) = max_retries
    /\ AttemptFailed([kind |-> "result", status |-> order_history[1].status])

\* the journal after the step is the journal before it plus one entry that
\* carries the number of the attempt just made
JournalGrowsByOne ==
    /\ Len(order_history') = Len(order_history) + 1
    /\ SubSeq(order_history', 1, Len(order_history)) = order_history
    /\ order_history'[Len(order_history')].attempt = call.attempt + 1

\* C12: every attempt made by Submit, whether it returns a success, returns a
\* rejection or raises, appends exactly one entry carrying its attempt
\* number to the journal; no other step changes the journal.
C12_EveryAttemptJournaled ==
    [][IF call # Idle THEN JournalGrowsByOne \/ ~Attempt
       ELSE order_history' = order_history]_vars

\* a buy or sell that has returned an OrderResult
ReturnedResult(op) ==
    /\ ret.op = op
    /\ ret.returned
    /\ ret.result # NoResult

\* C13: whenever LiveTrader.buy returns an order result with
\* lots_executed > 0, the ledger holds a position for the symbol whose
\* quantity is lots_executed.
C13_ExecutedBuyIsInLedger ==
    (ReturnedResult("buy") /\ ret.result.lots_executed > 0) =>
        /\ ret.symbol \in DOMAIN positions
        /\ positions[ret.symbol].quantity = ret.result.lots_executed

\* a pass of the retry loop of a sell
SellAttemptStep == call # Idle /\ call.op = "sell" /\ call' # call

\* C14: LiveTrader.sell removes the symbol's position only when the outcome
\* is successful and lots_executed > 0; any other outcome, a successful
\* status with zero executed lots included, leaves the ledger unchanged.
C14_SellRemovesOnlyWhenExecuted ==
    [][SellAttemptStep =>
          IF AttemptSucceeded(ret'.outcome) /\ ret'.outcome.lots_executed > 0
          THEN call.symbol \notin DOMAIN positions'
          ELSE positions' = positions]_vars

\* LiveTrader.buy or LiveTrader.sell is called and its first attempt is due
CallStartStep == call = Idle /\ call' # Idle /\ ret'.op # "update_price"

\* a pass of the retry loop that raised or was rejected
FailedAttemptStep == call # Idle /\ call' # call /\ AttemptFailed(ret'.outcome)

\* C15: when every attempt of a LiveTrader.buy or LiveTrader.sell is rejected
\* or raises, the call returns a failed outcome (None), and the ledger,
\* halt_trading and the equity fields are as before the call: no step of
\* such a call changes them.
C15_FailedCallLeavesLedger ==
    /\ []((LiveCallStep /\ ret.returned /\ AttemptFailed(ret.outcome)) => ret.result = NoResult)
    /\ [][UNCHANGED riskVars \/ ~(CallStartStep \/ FailedAttemptStep)]_vars

\* a sell of an open position has returned after max_retries attempts, the
\* last one rejected
C15_Witness ==
    /\ ret.op = "sell" /\ ret.returned
    /\ ret.attempt = max_retries
    /\ ret.outcome.kind = "result" /\ AttemptFailed(ret.outcome)
    /\ ret.symbol \in DOMAIN positions

\* LiveTrader.buy is called
BuyCallStep == call = Idle /\ ret'.op = "buy"

\* C16: in every state where halt_trading is true, LiveTrader.buy sends no
\* order to the trader and returns no order result, for any symbol, lot
\* count and price, and no position is added to the ledger.
C16_HaltedBuySendsNothing ==
    /\ [](halt_trading => (call # Idle => call.op # "buy"))
    /\ [][(halt_trading /\ BuyCallStep) =>
             /\ call' = Idle
             /\ ret'.returned /\ ret'.result = NoResult /\ ret'.attempt = 0
             /\ positions' = positions
             /\ order_history' = order_history]_vars

\* a buy of a positive number of lots at a limit price has returned while
\* trading is halted
C16_Witness ==
    /\ halt_trading
    /\ ret.op = "buy" /\ ret.returned
    /\ ret.lots > 0

\* update_price was called with a price at which check_exit fired for an
\* open position
ExitFired == ret.op = "update_price" /\ ret.fired /\ ret.quantity # 0

\* the order that closes the position is due at the trader
ClosingOrderDue ==
    /\ call # Idle
    /\ call.symbol = ret.symbol
    /\ call.lots = Abs(ret.quantity)
    /\ call.op = (IF ret.quantity > 0 THEN "sell" ELSE "buy")

\* C17: whenever LiveTrader.update_price is called with a price at which
\* check_exit fires for an open position, long or short, a closing order for
\* the position's full absolute quantity (a sell for a long, a buy to cover
\* for a short) is sent, and once an order sent by a sell succeeds the
\* position is no longer in the ledger.
C17_ExitSendsClosingOrder ==
    /\ [](ExitFired => ClosingOrderDue)
    /\ [][(SellAttemptStep /\ AttemptSucceeded(ret'.outcome)) =>
             call.symbol \notin DOMAIN positions']_vars

\* C18: any two order submissions in the same process, two with identical
\* side, symbol and lots and the successive retries of one Submit included,
\* carry distinct order ids.
C18_OrderIdsDistinct ==
    \A i, j \in 1..Len(submitted) : i # j => submitted[i] # submitted[j]

\* both entry paths have sized and registered
BothRegistered == \A c \in Contexts : contexts[c].pc = "done"

\* C19: when two execution contexts each run AllowedSize followed by
\* RegisterEntry for different symbols, then in every interleaving of their
\* steps gross exposure after both registrations is at most
\* portfolio_equity x effective_exposure_cap (here the more generous of the
\* specified and the amended cap).
C19_NoOversizingUnderInterleaving ==
    BothRegistered =>
        Scale * GrossExposure <= portfolio_equity * Max({SpecifiedCap, AmendedCap})

\* C20: a wait for a streamed price of a symbol that has no stored price
\* ends within the timeout, also when updates for other symbols keep
\* arriving; a wait that ends by timeout gives the history-based price.
C20_WaitEndsWithinTimeout ==
    /\ wait.pc = "waiting" => wait.total <= timeout
    /\ (wait.pc = "done" /\ wait.source = "history") => wait.total <= timeout

\* a register_entry(symbol, price, quantity) step
RegisterStep(symbol, price, quantity) ==
    /\ register_entry(symbol, price, quantity)
    /\ ret' = NoRet
    /\ UNCHANGED <<limits, equityVars>>

\* the cases in which RegisterEntry is refused
EntryRefused(quantity) ==
    \/ halt_trading
    \/ Cardinality(DOMAIN positions) >= limits.max_positions
    \/ quantity = 0
    \/ (quantity < 0 /\ ~limits.allow_short)

\* the ledger after the step holds the position, its levels on the sides
\* its direction asks for, and every other entry as it was
EntryStored(symbol, price, quantity) ==
    /\ DOMAIN positions' = DOMAIN positions \cup {symbol}
    /\ \A s \in DOMAIN positions \ {symbol} : positions'[s] = positions[s]
    /\ positions'[symbol].entry_price = price
    /\ positions'[symbol].quantity = quantity
    /\ positions'[symbol].last_price = price
    /\ positions'[symbol].trailing_stop = positions'[symbol].stop_price
    /\ IF quantity < 0
       THEN /\ positions'[symbol].stop_price > Scale * price
            /\ positions'[symbol].take_profit < Scale * price
       ELSE /\ positions'[symbol].stop_price < Scale * price
            /\ positions'[symbol].take_profit > Scale * price

\* C22: RegisterEntry leaves the ledger exactly unchanged when halt_trading
\* is true, when the ledger already holds max_positions or more positions,
\* when quantity is 0, or when quantity < 0 and allow_short is false; in
\* every other case it stores the position with stop above entry and
\* take-profit below entry for a short, and stop below and take-profit
\* above for a long.
C22_RegisterEntryRefusals ==
    [][ret' # NoRet \/ \A symbol \in Symbols, price \in Prices, quantity \in Quantities :
          RegisterStep(symbol, price, quantity) =>
              IF EntryRefused(quantity)
              THEN positions' = positions
              ELSE EntryStored(symbol, price, quantity)]_vars

\* a short has been stored by a RiskManager that allows shorts
C22_Witness ==
    /\ ret = NoRet
    /\ limits.allow_short
    /\ \E s \in DOMAIN positions :
           /\ positions[s].quantity < 0
           /\ positions[s].last_price = positions[s].entry_price
           /\ positions[s].stop_price > Scale * positions[s].entry_price
           /\ positions[s].take_profit < Scale * positions[s].entry_price

\* a step that takes a position out of the ledger
LedgerShrinks == DOMAIN positions \ DOMAIN positions' # {}

\* an UpdateEquity step whose daily loss clears the ledger
ClearAllStep == UpdateEquity /\ halt_trading' /\ DOMAIN positions' = {}

\* an update_position_price or check_exit step for a symbol and a price
PriceStep(symbol, price) ==
    \/ check_exit(symbol, price)
    \/ update_position_price(symbol, price) /\ ret' = NoRet

\* C23: a position leaves the ledger only through ExitPosition or the
\* ClearAll run by a daily-loss breach; CheckExit and MarkPrice never remove
\* and never create a position: after a CheckExit that returns true the
\* position is still in the ledger with last_price equal to the price just
\* passed, and CheckExit or MarkPrice on an unknown symbol leaves the ledger
\* unchanged.
C23_OnlyExitsRemove ==
    /\ [][LedgerShrinks => (ExitPosition \/ ClearAllStep)]_vars
    /\ [][DOMAIN positions' = DOMAIN positions \/ ~(CheckExit \/ MarkPrice)]_vars
    /\ []((ret.op = "check_exit" /\ ret.value) =>
              /\ ret.symbol \in DOMAIN positions
              /\ positions[ret.symbol].last_price = ret.price)
    /\ [][positions' = positions
             \/ \A symbol \in Symbols \ DOMAIN positions, price \in Prices :
                    ~PriceStep(symbol, price)]_vars

\* a CheckExit has fired at a price away from the entry price
C23_Witness ==
    /\ ret.op = "check_exit"
    /\ ret.value
    /\ ret.symbol \in DOMAIN positions
    /\ positions[ret.symbol].last_price = ret.price
    /\ positions[ret.symbol].entry_price # ret.price

\* a step that clears the halt
HaltCleared == halt_trading /\ ~halt_trading'

\* C24: halt_trading changes from true to false only inside an UpdateEquity
\* call whose calendar date differs from last_equity_date, and that call
\* also resets day_start_equity to the new equity; every other operation,
\* and every further UpdateEquity on the same date, leaves a set
\* halt_trading set.
C24_HaltClearedOncePerDay ==
    [][HaltCleared =>
          /\ NewDayUpdate
          /\ day_start_equity' = ret'.equity
          /\ portfolio_equity' = ret'.equity]_vars

\* the first update of a new day has cleared a halt
C24_Witness ==
    /\ ret.op = "update_equity"
    /\ ret.halted_before
    /\ ~halt_trading
    /\ day_start_equity = ret.equity

\* C21: when a monitor scan finds a position that breaches an instrument or
\* asset-class limit, the monitor invokes the force-exit callback for that
\* symbol and does not itself remove the position from the ledger: in every
\* monitor scan a position leaves the ledger only as an effect of the
\* callback, whether or not a callback is installed and whether or not it
\* raises.
C21_MonitorLeavesLedgerToCallback ==
    [][HandleViolation => DOMAIN positions' = DOMAIN positions]_vars

\* the daily loss of the update just made reaches the limit
DailyLossReached ==
    /\ ret.op = "update_equity"
    /\ day_start_equity > 0
    /\ (day_start_equity - ret.equity) * Scale >= limits.max_daily_loss_pct * day_start_equity

\* C27: when the notifier raises during UpdateEquity or during a
\* monitor-scan violation, the exception does not reach the caller and the
\* risk transition completes: on a daily-loss breach the ledger is cleared
\* and halt_trading is set whether the notification succeeds or fails, and
\* a scan is not cut short by the notifier.
C27_NotifierFailuresContained ==
    /\ ret.op = "update_equity" => ~ret.raised
    /\ DailyLossReached => (halt_trading /\ DOMAIN positions = {})
    /\ ~scan.error
    /\ ret.op # "scan_error"

\* a daily-loss breach has cleared a ledger under a notifier that raises
C27_Witness ==
    /\ notifier = "raises"
    /\ DailyLossReached
    /\ ret.open_before # {}
    /\ halt_trading
    /\ DOMAIN positions = {}

\* a violation has been handled under a notifier that raises
C27_ScanWitness ==
    /\ notifier = "raises"
    /\ ret.op = "handle_violation"
    /\ ret.was_open

C26_PriceCallbackDropsWhenFull ==
    [][OnPrice =>
          /\ Len(queue') <= MaxQueue
          /\ (Len(queue) = MaxQueue => queue' = queue)
          /\ (Len(queue) < MaxQueue => queue' = Append(queue, <<ret'.symbol, ret'.price>>))
          /\ last_prices'[ret'.symbol] = ret'.price]_vars

\* an update arrived at a full queue that held another price of its symbol
C26_Witness ==
    /\ ret.op = "on_price"
    /\ ret.dropped
    /\ Len(queue) = MaxQueue
    /\ \E i \in 1..Len(queue) : queue[i][1] = ret.symbol /\ queue[i][2] # ret.price
    /\ last_prices[ret.symbol] = ret.price

\* the monitor loops that have not ended
RunningLoops == {t \in DOMAIN threads : threads[t].pc # "ended"}

\* C28: after stop_monitoring() followed at once by start_monitoring(), with
\* monitor_interval > 0, exactly one monitor loop is eventually running and
\* stays running, also when the old loop is still asleep at the moment the
\* join of stop_monitoring times out.
C28_RestartLeavesOneMonitor ==
    (setup.pc = "restarted" /\ limits.monitor_interval > 0)
        ~> [](Cardinality(RunningLoops) = 1)

\* the orders sent for a symbol
OrdersFor(symbol) == {i \in DOMAIN submitted : submitted[i].figi = symbol}

\* C29: for each open position at most one closing order is sent to the
\* broker, in every interleaving of the monitor thread's forced exit with
\* the live cycle's exit handling of the same symbol, and within one scan in
\* which the position breaches several limits (no position is entered here,
\* so every order closes one of the positions the ledger began with).
C29_OneClosingOrderPerPosition ==
    \A symbol \in Symbols : Cardinality(OrdersFor(symbol)) <= 1

\* C30: the equity that the live cycle passes to UpdateEquity after a sweep
\* equals the starting capital plus the unrealised profit or loss of the
\* open positions, so a position entered at the current price with no later
\* price change leaves that equity at the starting capital.
C30_EquityIsCapitalPlusPnl ==
    ret.op = "mark_to_market" => ret.equity = limits.initial_capital + ret.pnl

====
